---- MODULE Spec2Model ----
(***************************************************************************)
(* Model of the Season entity of zine (src/src/entity/season.rs):          *)
(* Season::parse, Season::sibling_articles and Season::render.             *)
(*                                                                         *)
(* Strings of the program that are only compared are TLA+ strings; texts   *)
(* that are tokenized are sequences of characters (0 the space, 1 the      *)
(* letter a, 2 the letter b).  An Option<T> is a sequence of length 0      *)
(* (None) or 1 (Some).  A map is a function whose DOMAIN is its key set.   *)
(***************************************************************************)
EXTENDS Integers, Sequences, FiniteSets

\* ------------------------------------------------------------------ bounds
MaxArticles == 3      \* longest manifest list of the ordering/render runs
MaxDate == 2          \* publication dates are 1..MaxDate
MaxWordArticles == 2  \* longest manifest list of the word-frequency runs
MaxParses == 2        \* calls of parse on one season
MaxIndex == 4         \* largest index handed to sibling_articles

VARIABLES
    season,    \* the Season struct
    disk,      \* what the filesystem holds below each source root
    parses,    \* the number of calls of parse so far
    first,     \* the result of the first call of parse, "none" before it
    op,        \* the last call: "new", "parse", "render", "sibling_articles"
    arg,       \* its argument
    pre,       \* the Season as it was when the last call started
    result,    \* its result: "Ok" or the kind of the error returned
    trace,     \* the steps of parse the last call of parse completed
    rendered,  \* the render calls the last render made, in order
    siblings   \* the pair the last sibling_articles returned

vars == <<season, disk, parses, first, op, arg, pre, result, trace, rendered, siblings>>

\* ----------------------------------------------------------- basic values
None == <<>>
Some(x) == <<x>>

Space == 0
Dates == 1..MaxDate

\* The two source roots a caller passes to parse.
Roots == {"src_a", "src_b"}

\* Names of files an intro can name; a file's content is again such a string.
IntroNames == {"p", "q"}

EmptyMap == [w \in {} |-> 0]

\* The markdown texts of the word-frequency runs:
\* "", "a", "aa", "aa a", "aa bb aa", "bb  ab".
Documents ==
    {<<>>, <<1>>, <<1, 1>>, <<1, 1, 0, 1>>, <<1, 1, 0, 2, 2, 0, 1, 1>>,
     <<2, 2, 0, 0, 1, 2>>}

\* ------------------------------------------------------------ tokenizer
\* Length of the leading run of non-space characters of t.
RECURSIVE WordLen(_)
WordLen(t) ==
    IF t = <<>> \/ Head(t) = Space THEN 0 ELSE 1 + WordLen(Tail(t))

\* jieba.cut(text, true) on words separated by spaces: every maximal run of
\* word characters is a token and every space is a token of its own.
RECURSIVE Cut(_)
Cut(t) ==
    IF t = <<>> THEN <<>>
    ELSE IF Head(t) = Space THEN <<<<Space>>>> \o Cut(Tail(t))
    ELSE LET n == WordLen(t)
         IN  <<SubSeq(t, 1, n)>> \o Cut(SubSeq(t, n + 1, Len(t)))

\* ------------------------------------------------------- Season::parse
\* Lines 73-75: the intro file is read when intro is Some(path); the path is
\* whatever string the field holds.
ReadIntro(s, d) ==
    IF s.intro = None THEN [ok |-> TRUE, read |-> FALSE, season |-> s]
    ELSE IF s.intro[1] \in DOMAIN d.files
         THEN [ok |-> TRUE, read |-> TRUE,
               season |-> [s EXCEPT !.intro = Some(d.files[s.intro[1]])]]
         ELSE [ok |-> FALSE, read |-> FALSE, season |-> s]

\* All orders of the articles a.
Orders(a) ==
    {[i \in 1..Len(a) |-> a[f[i]]] :
        f \in {g \in [1..Len(a) -> 1..Len(a)] :
                 \A i, j \in 1..Len(a) : i # j => g[i] # g[j]}}

IsSortedByDate(a) ==
    \A i, j \in 1..Len(a) : i < j => a[i].pub_date <= a[j].pub_date

\* The sort left out: the articles stay in any order.
SortUnstableByKey_NoSort(a) == Orders(a)

\* Lines 89-90: sort_unstable_by_key(|article| article.pub_date).  The sort
\* is unstable: the result is some order of the articles that is ascending
\* by pub_date, and elements with equal keys may be reordered.
SortUnstableByKey(a) == {b \in Orders(a) : IsSortedByDate(b)}

\* Article::parse and Vec<Article>::parse (line 92): each article in order
\* reads its markdown file below the season directory; the first failure
\* stops the loop.
RECURSIVE ParseArticles(_, _, _)
ParseArticles(a, i, d) ==
    IF i > Len(a) THEN [ok |-> TRUE, articles |-> a]
    ELSE IF a[i].slug \notin DOMAIN d.md THEN [ok |-> FALSE, articles |-> a]
    ELSE ParseArticles([a EXCEPT ![i].markdown = d.md[a[i].slug]], i + 1, d)

\* The length test off by one: single characters are counted too.
IsCounted_AnyLength(word) == Len(word) >= 1

\* Line 101: a word is counted only if it has more than one character.
IsCounted(word) == Len(word) > 1

\* Lines 102-103: *word_count.entry(word).or_insert(0) += 1.
AddWord(wc, word) ==
    [w \in DOMAIN wc \cup {word} |->
        IF w = word THEN (IF word \in DOMAIN wc THEN wc[word] ELSE 0) + 1
        ELSE wc[w]]

\* Lines 99-105: the loop over the words of one article.
RECURSIVE CountWords(_, _)
CountWords(words, wc) ==
    IF words = <<>> THEN wc
    ELSE CountWords(Tail(words),
                    IF IsCounted(Head(words)) THEN AddWord(wc, Head(words))
                    ELSE wc)

\* Lines 97-106: the loop over the articles.
RECURSIVE CountArticles(_, _)
CountArticles(a, wc) ==
    IF a = <<>> THEN wc
    ELSE CountArticles(Tail(a), CountWords(Cut(Head(a).markdown), wc))

\* Lines 95-107: the table is built from an empty map and then assigned.
AnalyzeWords(s) == [s EXCEPT !.word_count = CountArticles(s.articles, EmptyMap)]

\* Best-effort continuation: the failure of a child is dropped.
AfterSort_BestEffort(s, d, t) ==
    LET ch == ParseArticles(s.articles, 1, d)
    IN  [season |-> AnalyzeWords([s EXCEPT !.articles = ch.articles]),
         result |-> "Ok",
         trace |-> t \o <<"manifest", "sort", "children", "words">>]

\* Line 92 and after: the children are parsed; a failure returns at once.
AfterSort(s, d, t) ==
    LET ch == ParseArticles(s.articles, 1, d)
        s1 == [s EXCEPT !.articles = ch.articles]
    IN  IF ~ch.ok
        THEN [season |-> s1, result |-> "ChildParseError",
              trace |-> t \o <<"manifest", "sort">>]
        ELSE [season |-> AnalyzeWords(s1), result |-> "Ok",
              trace |-> t \o <<"manifest", "sort", "children", "words">>]

\* The children cleared before the manifest is read.
AfterIntro_ClearsChildren(s, d, t) ==
    IF d.manifest.state = "missing"
    THEN {[season |-> [s EXCEPT !.articles = <<>>], result |-> "IoError", trace |-> t]}
    ELSE IF d.manifest.state = "malformed"
    THEN {[season |-> [s EXCEPT !.articles = <<>>],
           result |-> "ManifestFormatError", trace |-> t]}
    ELSE {AfterSort([s EXCEPT !.articles = sorted], d, t) :
             sorted \in SortUnstableByKey(d.manifest.articles)}

\* Lines 84-90: the manifest is read and deserialized, self.articles is
\* replaced and sorted.
AfterIntro(s, d, t) ==
    IF d.manifest.state = "missing"
    THEN {[season |-> s, result |-> "IoError", trace |-> t]}
    ELSE IF d.manifest.state = "malformed"
    THEN {[season |-> s, result |-> "ManifestFormatError", trace |-> t]}
    ELSE {AfterSort([s EXCEPT !.articles = sorted], d, t) :
             sorted \in SortUnstableByKey(d.manifest.articles)}

\* Season::parse: the set of outcomes of one call on season s with the
\* source root holding d.
ParseCall(s, d) ==
    LET r == ReadIntro(s, d)
    IN  IF ~r.ok
        THEN {[season |-> s, result |-> "IoError", trace |-> <<>>]}
        ELSE AfterIntro(r.season, d, IF r.read THEN <<"intro">> ELSE <<>>)

\* -------------------------------------------- Season::sibling_articles
\* Vec::get: Some(element) inside the bounds, None outside; index is 0-based.
Get(a, index) == IF index >= 0 /\ index < Len(a) THEN Some(a[index + 1]) ELSE None

\* The previous sibling taken at current instead of current - 1.
sibling_articles_OffByOne(a, current) ==
    IF current = 0 THEN <<None, Get(a, current + 1)>>
    ELSE <<Get(a, current), Get(a, current + 1)>>

\* The index validated first: (None, None) for every index out of range.
sibling_articles_Validated(a, current) ==
    IF current >= Len(a) THEN <<None, None>>
    ELSE IF current = 0 THEN <<None, Get(a, current + 1)>>
    ELSE <<Get(a, current - 1), Get(a, current + 1)>>

\* Lines 58-67.
sibling_articles(a, current) ==
    IF current = 0 THEN <<None, Get(a, current + 1)>>
    ELSE <<Get(a, current - 1), Get(a, current + 1)>>

\* ------------------------------------------------------ Season::render
\* Context::insert: the key is added or its value replaced.
Insert(c, k, v) == [x \in DOMAIN c \cup {k} |-> IF x = k THEN v ELSE c[x]]

\* extract_description_from_markdown: a summary that depends on the text only.
ExtractDescription(text) == <<"summary", text>>

\* Lines 50-56; String::default() is the empty sequence.
description(s) == IF s.intro # None THEN ExtractDescription(s.intro[1]) ELSE <<>>

\* Lines 126-131.
MetaOf(s) == [title |-> s.title, description |-> description(s),
              url |-> Some(s.slug), image |-> s.cover]

\* Lines 17-31: #[derive(Serialize)] on Season.  word_count is
\* #[serde(skip)] and is not serialized; the other fields keep their names
\* (the rename of articles applies to deserialization only).
SerializeSeason(s) == [k \in DOMAIN s \ {"word_count"} |-> s[k]]

\* Line 114: context.insert("season", &self) stores the serialized season.
SeasonContext(s, context) == Insert(context, "season", SerializeSeason(s))

\* Lines 118-120: the context of the article at index (0-based) is a clone
\* of the season context with "siblings" and "number" inserted.
ArticleContext(s, context, index) ==
    Insert(Insert(context, "siblings", sibling_articles(s.articles, index)),
           "number", index + 1)

\* Line 121: one call of article.render.
ArticleRender(s, context, index, ok) ==
    [template |-> "article", index |-> index,
     context |-> ArticleContext(s, context, index),
     dest |-> <<s.slug, s.articles[index + 1].slug>>, ok |-> ok]

\* Lines 117-122: the loop over the articles.  The render calls are numbered
\* from 1 in the order they are made (the season template's comes last);
\* failing is the number of the call that fails, 0 when none does.  The
\* first failure returns.
RECURSIVE RenderArticles(_, _, _, _, _)
RenderArticles(s, context, index, failing, log) ==
    IF index >= Len(s.articles) THEN [ok |-> TRUE, log |-> log]
    ELSE LET call == ArticleRender(s, context, index, failing # index + 1)
         IN  IF ~call.ok THEN [ok |-> FALSE, log |-> Append(log, call)]
             ELSE RenderArticles(s, context, index + 1, failing, Append(log, call))

\* Lines 124-133: "meta" is inserted and the season template is rendered.
SeasonRender(s, context, ok) ==
    [template |-> "season.jinja", index |-> -1,
     context |-> Insert(context, "meta", MetaOf(s)),
     dest |-> <<s.slug>>, ok |-> ok]

\* One context shared by all the render calls: the season template sees what
\* the last article's context holds.
RenderCall_SharedContext(s, context, failing) ==
    LET c == SeasonContext(s, context)
        r == RenderArticles(s, c, 0, failing, <<>>)
        sinkOk == failing # Len(s.articles) + 1
        shared == IF r.log = <<>> THEN c ELSE r.log[Len(r.log)].context
    IN  IF ~r.ok THEN [result |-> "ChildRenderError", log |-> r.log]
        ELSE [result |-> IF sinkOk THEN "Ok" ELSE "RenderError",
              log |-> Append(r.log, SeasonRender(s, shared, sinkOk))]

\* The failure of an article's render dropped: the season template is
\* rendered all the same.
RenderCall_DropsFailure(s, context, failing) ==
    LET c == SeasonContext(s, context)
        r == RenderArticles(s, c, 0, failing, <<>>)
        sinkOk == failing # Len(s.articles) + 1
    IN  [result |-> IF sinkOk THEN "Ok" ELSE "RenderError",
         log |-> Append(r.log, SeasonRender(s, c, sinkOk))]

\* Season::render.
RenderCall(s, context, failing) ==
    LET c == SeasonContext(s, context)
        r == RenderArticles(s, c, 0, failing, <<>>)
        sinkOk == failing # Len(s.articles) + 1
    IN  IF ~r.ok THEN [result |-> "ChildRenderError", log |-> r.log]
        ELSE [result |-> IF sinkOk THEN "Ok" ELSE "RenderError",
              log |-> Append(r.log, SeasonRender(s, c, sinkOk))]

\* ---------------------------------------------------------- the inputs
\* The contexts a caller passes to render.
Contexts == {[site |-> "zine"], [site |-> "zine", number |-> 0]}

\* An article as the manifest describes it: the markdown is not loaded yet.
Article(slug, date) == [slug |-> slug, pub_date |-> date, markdown |-> <<>>]

\* Manifests of n articles with slugs 1..n and dates from D.
ManifestLists(n, D) ==
    UNION {{[i \in 1..k |-> Article(i, dates[i])] : dates \in [1..k -> D]} : k \in 0..n}

Manifest(state, a) == [state |-> state, articles |-> a]

\* Partial functions from S to T.
Partial(S, T) == UNION {[X -> T] : X \in SUBSET S}

\* The Season as deserialized from the zine.toml of the site.
NewSeason(intro) ==
    [slug |-> "season-1", number |-> 1, title |-> "One", intro |-> intro,
     cover |-> None, path |-> "s1", articles |-> <<>>, word_count |-> EmptyMap]

InitCall ==
    /\ parses = 0
    /\ first = "none"
    /\ op = "new"
    /\ arg = <<>>
    /\ pre = season
    /\ result = "Ok"
    /\ trace = <<>>
    /\ rendered = <<>>
    /\ siblings = <<None, None>>

DiskOf(files, manifest, md) == [files |-> files, manifest |-> manifest, md |-> md]

NoManifest == DiskOf(<<>>, Manifest("missing", <<>>), <<>>)

\* Ordering and rendering: manifests of up to MaxArticles articles with any
\* dates, every article file present with the same text.
Init ==
    /\ season = NewSeason(None)
    /\ \E a \in ManifestLists(MaxArticles, Dates) :
          disk = [r \in Roots |->
                    IF r = "src_a"
                    THEN DiskOf(<<>>, Manifest("ok", a), [i \in 1..Len(a) |-> <<1, 1>>])
                    ELSE NoManifest]
    /\ InitCall

\* One article whose markdown file holds text.
OneArticle(text) ==
    DiskOf(<<>>, Manifest("ok", <<Article(1, 1)>>), [i \in {1} |-> text])

\* Word frequencies: manifests of up to MaxWordArticles articles with
\* distinct dates in manifest order; each article file is absent or holds
\* one of the Documents.  The second root has no manifest, or one article
\* whose file holds one word.
InitWords ==
    /\ season = NewSeason(None)
    /\ \E k \in 0..MaxWordArticles :
          \E md \in Partial(1..k, Documents),
             other \in {NoManifest, OneArticle(<<1, 1>>)} :
             disk = [r \in Roots |->
                       IF r = "src_a"
                       THEN DiskOf(<<>>, Manifest("ok", [i \in 1..k |-> Article(i, i)]), md)
                       ELSE other]
    /\ InitCall

\* The season directories of the intro runs: the manifest is missing,
\* malformed, empty, or lists one article whose file is absent or holds one
\* word; files are the files below the source root.
IntroDisks(files) ==
    {DiskOf(files, Manifest("missing", <<>>), <<>>),
     DiskOf(files, Manifest("malformed", <<>>), <<>>),
     DiskOf(files, Manifest("ok", <<>>), <<>>),
     DiskOf(files, Manifest("ok", <<Article(1, 1)>>), <<>>),
     DiskOf(files, Manifest("ok", <<Article(1, 1)>>), [i \in {1} |-> <<1, 1>>])}

\* Intro and manifest failures: the intro is None or names a file; below
\* each root any of the named files may exist, holding a name again; the
\* article file, when the manifest lists one, is absent or holds one word.
InitIntro ==
    /\ season \in {NewSeason(None)} \cup {NewSeason(Some(n)) : n \in IntroNames}
    /\ \E fa \in Partial(IntroNames, IntroNames),
          fb \in Partial(IntroNames, IntroNames) :
          \E da \in IntroDisks(fa),
             db \in {DiskOf(fb, Manifest("missing", <<>>), <<>>),
                     DiskOf(fb, Manifest("ok", <<Article(1, 1)>>), <<>>)} :
             disk = [r \in Roots |-> IF r = "src_a" THEN da ELSE db]
    /\ InitCall

\* ---------------------------------------------------------- the actions
Parse(source) ==
    /\ parses < MaxParses
    /\ \E o \in ParseCall(season, disk[source]) :
          /\ season' = o.season
          /\ result' = o.result
          /\ trace' = o.trace
          /\ first' = IF parses = 0 THEN o.result ELSE first
    /\ parses' = parses + 1
    /\ op' = "parse"
    /\ arg' = source
    /\ pre' = season
    /\ rendered' = <<>>
    /\ siblings' = <<None, None>>
    /\ UNCHANGED disk

Render(context) ==
    /\ \E failing \in 0..(Len(season.articles) + 1) :
          LET o == RenderCall(season, context, failing)
          IN  /\ result' = o.result
              /\ rendered' = o.log
    /\ op' = "render"
    /\ arg' = context
    /\ pre' = season
    /\ trace' = <<>>
    /\ siblings' = <<None, None>>
    /\ UNCHANGED <<season, disk, parses, first>>

SiblingArticles(current) ==
    /\ siblings' = sibling_articles(season.articles, current)
    /\ op' = "sibling_articles"
    /\ arg' = current
    /\ pre' = season
    /\ result' = "Ok"
    /\ trace' = <<>>
    /\ rendered' = <<>>
    /\ UNCHANGED <<season, disk, parses, first>>

Next ==
    \/ \E source \in Roots : Parse(source)
    \/ \E context \in Contexts : Render(context)
    \/ \E current \in 0..MaxIndex : SiblingArticles(current)

Spec == Init /\ [][Next]_vars

SpecWords == InitWords /\ [][Next]_vars

SpecIntro == InitIntro /\ [][Next]_vars

\* ------------------------------------------------------------ properties
\* The manifest list and the directory the last call of parse read.
ParsedDisk == disk[arg]
ParsedManifest == disk[arg].manifest.articles

\* Position of the article with this slug in the manifest list m.
ManifestIndex(m, slug) == CHOOSE k \in 1..Len(m) : m[k].slug = slug

\* The tokens of the raw content of the manifest's article art.
WordsOf(d, art) == Cut(d.md[art.slug])

\* Every token of every article of the manifest.
AllWords(d) ==
    UNION {{WordsOf(d, d.manifest.articles[i])[k] :
               k \in 1..Len(WordsOf(d, d.manifest.articles[i]))} :
           i \in 1..Len(d.manifest.articles)}

\* How often the tokenizer produces w over all articles: the number of
\* (article, position) pairs holding w.
Occurrences(d, w) ==
    Cardinality(
        {q \in UNION {{<<i, k>> : k \in 1..Len(WordsOf(d, d.manifest.articles[i]))} :
                         i \in 1..Len(d.manifest.articles)} :
            WordsOf(d, d.manifest.articles[q[1]])[q[2]] = w})

\* The value v holds every field of the season but word_count, and no other.
IsSeasonValue(v) ==
    /\ DOMAIN v = DOMAIN season \ {"word_count"}
    /\ \A k \in DOMAIN v : v[k] = season[k]

\* The pair the spec gives the child at 0-based index i of the children a.
ExpectedSiblings(a, i) ==
    <<IF i = 0 THEN None ELSE Some(a[i]),
      IF i + 1 < Len(a) THEN Some(a[i + 2]) ELSE None>>

\* C1: after a successful parse, two children with equal publication dates
\* are in the order in which the manifest lists them (the sort is stable).
C1_StableSort ==
    (op = "parse" /\ result = "Ok") =>
        \A i, j \in 1..Len(season.articles) :
            (i < j /\ season.articles[i].pub_date = season.articles[j].pub_date)
                => ManifestIndex(ParsedManifest, season.articles[i].slug)
                      < ManifestIndex(ParsedManifest, season.articles[j].slug)

\* C2: after a successful parse, children is ascending by publication date
\* and holds every child of the manifest list exactly once, with its date.
C2_SortedPermutation ==
    (op = "parse" /\ result = "Ok") =>
        /\ \A i, j \in 1..Len(season.articles) :
              i < j => season.articles[i].pub_date <= season.articles[j].pub_date
        /\ Len(season.articles) = Len(ParsedManifest)
        /\ \A k \in 1..Len(ParsedManifest) :
              Cardinality({i \in 1..Len(season.articles) :
                              /\ season.articles[i].slug = ParsedManifest[k].slug
                              /\ season.articles[i].pub_date = ParsedManifest[k].pub_date}) = 1

C2_Witness ==
    /\ op = "parse" /\ result = "Ok"
    /\ Len(season.articles) = 3
    /\ ParsedManifest[1].pub_date > ParsedManifest[2].pub_date
    /\ ParsedManifest[2].pub_date < ParsedManifest[3].pub_date

\* C3: after a successful parse, the word-frequency table has no token of
\* one character, its keys are exactly the tokens of two or more characters
\* the tokenizer produces from the children's raw content, each mapped to the
\* number of times it is produced; nothing of an earlier table remains.
C3_WordFrequency ==
    (op = "parse" /\ result = "Ok") =>
        /\ \A w \in DOMAIN season.word_count : Len(w) # 1
        /\ DOMAIN season.word_count = {w \in AllWords(ParsedDisk) : Len(w) >= 2}
        /\ \A w \in DOMAIN season.word_count :
              season.word_count[w] = Occurrences(ParsedDisk, w)

C3_Witness ==
    /\ op = "parse" /\ result = "Ok"
    /\ parses = 2
    /\ DOMAIN pre.word_count # {}
    /\ pre.word_count # season.word_count
    /\ \E w \in AllWords(ParsedDisk) : Len(w) = 1
    /\ Cardinality(DOMAIN season.word_count) >= 2
    /\ \E w \in DOMAIN season.word_count : season.word_count[w] >= 3

\* C4: the context render hands the child at index i holds number = i + 1
\* and siblings = (previous, next): previous is none for i = 0 and
\* children[i-1] otherwise, next is children[i+1] if i + 1 < N and none
\* otherwise; a single child receives (none, none).
C4_SiblingsAndNumber ==
    op = "render" =>
        \A k \in 1..Len(rendered) :
            rendered[k].template = "article" =>
                /\ rendered[k].index \in 0..(Len(season.articles) - 1)
                /\ rendered[k].context["number"] = rendered[k].index + 1
                /\ rendered[k].context["siblings"]
                      = ExpectedSiblings(season.articles, rendered[k].index)
                /\ (Len(season.articles) = 1 =>
                       rendered[k].context["siblings"] = <<None, None>>)

C4_Witness ==
    /\ op = "render" /\ result = "Ok"
    /\ Len(season.articles) = 3
    /\ Len(rendered) = 4
    /\ rendered[2].context["siblings"]
          = <<Some(season.articles[1]), Some(season.articles[3])>>

\* C5: the siblings and number inserted for one child are in no other
\* child's context, which holds its own values, and not in the context of
\* the season template, which holds the incoming entries, season and meta.
C5_ContextIsolation ==
    op = "render" =>
        \A k \in 1..Len(rendered) :
            LET c == rendered[k].context
            IN  IF rendered[k].template = "article"
                THEN /\ DOMAIN c = DOMAIN arg \cup {"season", "siblings", "number"}
                     /\ IsSeasonValue(c["season"])
                     /\ c["number"] = rendered[k].index + 1
                     /\ c["siblings"] = ExpectedSiblings(season.articles, rendered[k].index)
                     /\ \A x \in DOMAIN arg \ {"season", "siblings", "number"} :
                           c[x] = arg[x]
                     /\ \A j \in 1..Len(rendered) :
                           (j # k /\ rendered[j].template = "article") =>
                               /\ c["number"] # rendered[j].context["number"]
                               /\ c["siblings"] # rendered[j].context["siblings"]
                ELSE /\ DOMAIN c = DOMAIN arg \cup {"season", "meta"}
                     /\ IsSeasonValue(c["season"])
                     /\ \A x \in DOMAIN arg \ {"season", "meta"} : c[x] = arg[x]

C5_Witness ==
    /\ op = "render" /\ result = "Ok"
    /\ Len(rendered) = 4
    /\ "number" \in DOMAIN arg
    /\ rendered[4].template = "season.jinja"
    /\ rendered[4].context["number"] = arg["number"]
    /\ rendered[3].context["number"] = 3
    /\ DOMAIN season.word_count # {}

\* C6 as claimed: when the manifest is missing, parse returns an I/O
\* failure, children and word_frequency keep their values, and intro keeps
\* its value when no intro was set and otherwise holds the whole decoded
\* text of the intro file.
C6_MissingManifestDecoded ==
    (op = "parse" /\ ParsedDisk.manifest.state = "missing") =>
        /\ result = "IoError"
        /\ season.articles = pre.articles
        /\ season.word_count = pre.word_count
        /\ pre.intro = None => season.intro = pre.intro
        /\ pre.intro # None =>
              /\ pre.intro[1] \in DOMAIN ParsedDisk.files
              /\ season.intro = Some(ParsedDisk.files[pre.intro[1]])

\* C6 as amended: when the manifest is missing, parse returns an I/O failure
\* and changes no field but intro; intro keeps its value when no intro was
\* set or when the intro file cannot be read, and otherwise holds the whole
\* text of the intro file.
C6_MissingManifest ==
    (op = "parse" /\ ParsedDisk.manifest.state = "missing") =>
        /\ result = "IoError"
        /\ season.articles = pre.articles
        /\ season.word_count = pre.word_count
        /\ season = [pre EXCEPT !.intro = season.intro]
        /\ pre.intro = None => season.intro = None
        /\ (pre.intro # None /\ pre.intro[1] \notin DOMAIN ParsedDisk.files)
              => (season.intro = pre.intro /\ trace = <<>>)
        /\ (pre.intro # None /\ pre.intro[1] \in DOMAIN ParsedDisk.files)
              => (season.intro = Some(ParsedDisk.files[pre.intro[1]])
                  /\ trace = <<"intro">>)

\* A second parse finds neither the intro file nor the manifest: intro still
\* holds what the first parse decoded, children and table are kept.
C6_Witness ==
    /\ op = "parse" /\ ParsedDisk.manifest.state = "missing"
    /\ result = "IoError"
    /\ pre.articles # <<>>
    /\ DOMAIN pre.word_count # {}
    /\ pre.intro # None
    /\ pre.intro[1] \notin DOMAIN ParsedDisk.files
    /\ season.intro = pre.intro

\* C7: after a successful first parse of a season whose intro is set, the
\* second parse fails or leaves intro as the first call decoded it.
C7_NoSilentRedecode ==
    (op = "parse" /\ parses = 2 /\ first = "Ok" /\ pre.intro # None) =>
        (result # "Ok" \/ season.intro = pre.intro)

\* The manifest lists an article whose markdown file is missing.
ChildFails(d) ==
    /\ d.manifest.state = "ok"
    /\ \E i \in 1..Len(d.manifest.articles) : d.manifest.articles[i].slug \notin DOMAIN d.md

\* C8: when the parse of a child fails, parse does not return Ok, the word
\* analysis is not run and word_frequency keeps the value it had; the
\* failure returned is the child's once the intro has been read.
C8_ChildFailureAborts ==
    (op = "parse" /\ ChildFails(ParsedDisk)) =>
        /\ result # "Ok"
        /\ \A k \in 1..Len(trace) : trace[k] # "words"
        /\ season.word_count = pre.word_count
        /\ (pre.intro = None \/ pre.intro[1] \in DOMAIN ParsedDisk.files)
              => result = "ChildParseError"

C8_Witness ==
    /\ op = "parse" /\ ChildFails(ParsedDisk)
    /\ result = "ChildParseError"
    /\ DOMAIN pre.word_count # {}
    /\ Len(season.articles) = 2
    /\ Len(Cut(season.articles[1].markdown)) >= 3
    /\ season.articles[2].markdown = <<>>

\* C9: render renders the children in order, each at most once, and submits
\* the season template only after all of them succeeded; when the render of
\* a child fails, render returns that failure, renders no later child and
\* does not submit the season template.
C9_RenderOrder ==
    op = "render" =>
        /\ Len(rendered) <= Len(season.articles) + 1
        /\ \A k \in 1..Len(rendered) :
              /\ k <= Len(season.articles) =>
                    /\ rendered[k].template = "article"
                    /\ rendered[k].index = k - 1
                    /\ rendered[k].dest = <<season.slug, season.articles[k].slug>>
              /\ k = Len(season.articles) + 1 =>
                    /\ rendered[k].template = "season.jinja"
                    /\ \A j \in 1..(k - 1) : rendered[j].ok
              /\ ~rendered[k].ok => (k = Len(rendered) /\ result # "Ok")
              /\ (~rendered[k].ok /\ rendered[k].template = "article") =>
                    result = "ChildRenderError"
        /\ result = "Ok" =>
              /\ Len(rendered) = Len(season.articles) + 1
              /\ \A k \in 1..Len(rendered) : rendered[k].ok

C9_Witness ==
    /\ op = "render" /\ result = "ChildRenderError"
    /\ Len(season.articles) = 3
    /\ Len(rendered) = 2
    /\ rendered[1].ok /\ ~rendered[2].ok

\* C10 as claimed: sibling_articles returns (none, none) for every index
\* >= N, the index N included.
C10_OutOfRangeNone ==
    (op = "sibling_articles" /\ arg >= Len(season.articles)) =>
        siblings = <<None, None>>

\* C10 as amended: sibling_articles returns (none, none) for every index
\* > N and for index 0 of an empty list; for index = N >= 1 the previous
\* sibling is the last child and the next is none.
C10_OutOfRange ==
    (op = "sibling_articles" /\ arg >= Len(season.articles)) =>
        IF arg = Len(season.articles) /\ arg >= 1
        THEN siblings = <<Some(season.articles[arg]), None>>
        ELSE siblings = <<None, None>>

C10_Witness ==
    /\ op = "sibling_articles"
    /\ Len(season.articles) = 3
    /\ arg = 3
    /\ siblings = <<Some(season.articles[3]), None>>

====
